---------------------------- MODULE Spec2Model ----------------------------
(***************************************************************************)
(* Model of src/backend/live_audio_transcriber.cpp: a live monophonic      *)
(* audio-to-MIDI transcriber.  Three threads share global variables: the   *)
(* PortAudio callback (paCallback), the main thread (startup, the display  *)
(* loop, teardown) and the input thread that waits for Enter and sets      *)
(* shouldStop.                                                             *)
(*                                                                         *)
(* Units.  Sample amplitudes are in thousandths (0.005f is 5).             *)
(* Frequencies are in whole Hz.  A time stamp is kept as the numerator     *)
(* 2*framesProcessed + FFT_SIZE of (framesProcessed + FFT_SIZE/2.0) /      *)
(* SAMPLE_RATE, i.e. in units of 1/(2*SAMPLE_RATE) seconds.                *)
(*                                                                         *)
(* The spectral transform (FFTW) is an external library: the spectrum of a *)
(* window that passed the noise gate is an input of the analysis step.  A  *)
(* spectrum is a function from bin indices to magnitudes; a bin it does    *)
(* not list has magnitude 0.  Bin frequencies are those of the transform   *)
(* as built (TransformSize points at SAMPLE_RATE); a returned frequency is *)
(* kept in whole Hz, rounded down, while the comparisons of a bin's        *)
(* frequency with the band are made exactly.  No bin of the transform lies *)
(* strictly between 200 and 201 Hz, so "> 200" decides alike on both.      *)
(***************************************************************************)
EXTENDS Integers, Sequences, FiniteSets, TLC

(***************************************************************************)
(* Program constants.                                                      *)
(***************************************************************************)
SAMPLE_RATE == 48000
\* The window length, scaled down from 8192 so that windows can be enumerated.
FFT_SIZE == 4
HOP_SIZE == FFT_SIZE \div 2
FRAMES_PER_BUFFER == HOP_SIZE
\* The transform length as built (the macro FFT_SIZE), used for bin
\* frequencies.
TransformSize == 8192
NOISE_GATE_THRESHOLD == 5
SPECTRAL_MAGNITUDE_THRESHOLD == 5
MIN_FREQUENCY == 80
MAX_FREQUENCY == 2000
CONSECUTIVE_DETECTIONS_REQUIRED == 1
CONSECUTIVE_SILENCE_REQUIRED == 1
\* The literal 200 of the test "fundamentalFrequency > 200".
ConfidenceHz == 200

(***************************************************************************)
(* Bounds of the model.                                                    *)
(***************************************************************************)
\* Largest value of detectionsRequired / silencesRequired explored.
MaxRequired == 2
\* Samples delivered in a run of the state-machine specification.
MaxStreamSM == 16
\* Samples delivered in a run of the buffer specification and its largest chunk.
MaxStreamBuf == 9
MaxChunk == 6
\* Samples delivered in a run of the whole program.
MaxStream == 8
\* Samples delivered in a run of the estimator specification.
MaxStreamPeak == 6

Min(a, b) == IF a < b THEN a ELSE b

Max(a, b) == IF a > b THEN a ELSE b

Abs(x) == IF x < 0 THEN -x ELSE x

(***************************************************************************)
(* Pure helpers of the analysis.                                           *)
(***************************************************************************)
RECURSIVE MaxAmplitude(_)
MaxAmplitude(audioData) ==
    IF audioData = << >> THEN 0
    ELSE LET rest == MaxAmplitude(Tail(audioData))
             a    == Abs(Head(audioData))
         IN  IF a > rest THEN a ELSE rest

\* Mutant: a window whose peak equals the threshold passes.
passesNoiseGate_Inclusive(audioData) ==
    MaxAmplitude(audioData) >= NOISE_GATE_THRESHOLD

passesNoiseGate(audioData) == MaxAmplitude(audioData) > NOISE_GATE_THRESHOLD

\* Lowest whole frequency (Hz) that round(69 + 12*log2(f/440)) maps to note
\* 38 + i, for the notes the band [MIN_FREQUENCY, MAX_FREQUENCY] can produce.
NoteLowerEdgeHz ==
    << 76, 81, 85, 90, 96, 101, 107, 114, 120, 128, 135, 143, 152, 161, 170,
       180, 191, 202, 214, 227, 240, 255, 270, 286, 303, 321, 340, 360, 381,
       404, 428, 453, 480, 509, 539, 571, 605, 641, 679, 719, 762, 807, 855,
       906, 960, 1017, 1078, 1142, 1210, 1281, 1358, 1438, 1524, 1614, 1710,
       1812, 1920, 2034 >>

\* Defined for frequency <= 0 and for 76 Hz and above (the detector returns 0
\* or a frequency of the band).
frequencyToMidiNote(frequency) ==
    IF frequency <= 0 THEN 0
    ELSE 38 + Cardinality({i \in DOMAIN NoteLowerEdgeHz :
                              NoteLowerEdgeHz[i] <= frequency})

\* std::abs(fftData[i]).
Magnitude(fftData, i) == IF i \in DOMAIN fftData THEN fftData[i] ELSE 0

\* Lines 125-130: the first bin scanned and the bin the scan stops before.
minIndex == Max(1, (MIN_FREQUENCY * TransformSize) \div SAMPLE_RATE)

maxIndexLimit ==
    Min(TransformSize \div 2, (MAX_FREQUENCY * TransformSize) \div SAMPLE_RATE)

\* The bins the loop of line 132 visits that can raise maxMagnitude above 0.
ScannedBins(fftData) ==
    {i \in DOMAIN fftData :
        i >= minIndex /\ i < maxIndexLimit /\ Magnitude(fftData, i) > 0}

\* Lines 121-138: the scan keeps the first bin of the largest magnitude
\* (the test is a strict >), and -1 when no bin has a magnitude above 0.
maxIndex(fftData) ==
    IF ScannedBins(fftData) = {} THEN -1
    ELSE CHOOSE i \in ScannedBins(fftData) :
            \A j \in ScannedBins(fftData) :
                \/ Magnitude(fftData, j) < Magnitude(fftData, i)
                \/ Magnitude(fftData, j) = Magnitude(fftData, i) /\ i <= j

maxMagnitude(fftData) ==
    IF maxIndex(fftData) = -1 THEN 0
    ELSE Magnitude(fftData, maxIndex(fftData))

\* Line 143, on frequency = i * SAMPLE_RATE / TransformSize, exactly.
BinInBand(i) ==
    /\ i * SAMPLE_RATE >= MIN_FREQUENCY * TransformSize
    /\ i * SAMPLE_RATE <= MAX_FREQUENCY * TransformSize

\* Line 141, in whole Hz.
BinHz(i) == (i * SAMPLE_RATE) \div TransformSize

\* fftData: the spectrum fft returns for audioData (line 119); it is not
\* looked at when the noise gate rejects the window.
detectFundamentalFrequency(audioData, fftData) ==
    IF ~passesNoiseGate(audioData) THEN 0
    ELSE IF /\ maxIndex(fftData) > 0
            /\ maxMagnitude(fftData) > SPECTRAL_MAGNITUDE_THRESHOLD
            /\ BinInBand(maxIndex(fftData))
         THEN BinHz(maxIndex(fftData))
         ELSE 0

\* Lines 53-61: the name is the pair <<note index, octave>>.
NotAvailable == << -1, -1 >>

getNoteName(noteNumber) ==
    IF noteNumber <= 0 \/ noteNumber > 127 THEN NotAvailable
    ELSE << noteNumber % 12, (noteNumber \div 12) - 1 >>

\* The spectrum of a window the transform was not run on.
NoSpectrum == [i \in {} |-> 0]

\* A spectrum with a single bin above 0.
Tone(bin, magnitude) == [i \in {bin} |-> magnitude]

Pm_Message(status, data1, data2) ==
    [status |-> status, note |-> data1, velocity |-> data2]

Detection(timeSec, frequencyHz, midiNote) ==
    [timeSec |-> timeSec, frequencyHz |-> frequencyHz, midiNote |-> midiNote]

\* Mutant: the time stamp is that of the window's first sample.
TimestampTicks_WindowStart(frames) == 2 * frames

\* Numerator of the window-centre time stamp (line 194), see Units.
TimestampTicks(frames) == 2 * frames + FFT_SIZE

(***************************************************************************)
(* The decisions of the temporal smoothing logic (lines 197-228).          *)
(***************************************************************************)
\* Mutant: any pitch the estimator returns counts as a detection.
IsValidNote_AnyPitch(note, frequency) == note > 0

IsValidNote(note, frequency) == note > 0 /\ frequency > ConfidenceHz

\* Mutant: the counter is not restarted when the candidate changes.
NextDetections_NoReset(note, pending, detections) == detections + 1

NextDetections(note, pending, detections) ==
    IF note = pending THEN detections + 1 ELSE 1

\* Mutant: one detection too many is required.
TriggersNoteOn_Late(detections, required, note, last) ==
    detections > required /\ note # last

TriggersNoteOn(detections, required, note, last) ==
    detections >= required /\ note # last

\* Mutant: one silent window too many is required.
TriggersNoteOff_Late(silences, required, last) ==
    silences > required /\ last > 0

TriggersNoteOff(silences, required, last) ==
    silences >= required /\ last > 0

\* Mutant: the active note is not turned off before the new one starts.
NoteOffBeforeOn_Never(out, last) == out

NoteOffBeforeOn(out, last) ==
    IF last > 0 THEN Append(out, Pm_Message(144, last, 0)) ELSE out

NoteOnMessage(note) == Pm_Message(144, note, 100)

\* Mutant: a detection leaves the silence counter as it is.
ResetSilences_Keeps(silences) == silences

\* Line 207.
ResetSilences(silences) == 0

\* Mutant: the whole buffer is dropped.
AdvanceBuffer_Clears(buffer) == << >>

\* Mutant: one sample too few is dropped.
AdvanceBuffer_OneShort(buffer) == SubSeq(buffer, HOP_SIZE, Len(buffer))

AdvanceBuffer(buffer) == SubSeq(buffer, HOP_SIZE + 1, Len(buffer))

(***************************************************************************)
(* State.                                                                  *)
(***************************************************************************)
VARIABLES
    \* configuration (the macros of lines 36-37)
    detectionsRequired, silencesRequired,
    \* globals of lines 153-170
    lastMidiNote, noteChanged, shouldStop, currentMidiNote, currentFrequency,
    noteOffMidiNote, callbackCount, consecutiveDetections,
    consecutiveSilences, pendingMidiNote, pendingFrequency, overlapBuffer,
    framesProcessed,
    \* globals of lines 73-75 and 154, locals of main
    fftw, paLib, pmLib, midiStream, paStream, recordedDetections, exitCode,
    \* position of each thread, locals of paCallback
    mpc, ipc, cpc, audioWindow, fundamentalFrequency, newMidiNote,
    \* the spectrum of the window in progress (line 118), the frequency main
    \* has loaded for the line it is printing (line 355)
    fftData, printFrequency,
    \* the outside world: messages received by the MIDI device, the log file,
    \* the status lines written to std::cout, the messages written to std::cerr
    midiOut, logFile, console, errlog,
    \* history: the teardown calls main has made, in order
    teardown,
    \* history: samples delivered so far, windows taken so far, the state at
    \* the start of the window in progress, runs of the detector's results,
    \* meter publications made and seen
    delivered, nWindows, win0, detRun, silRun, prevCand, pubCount, seenCount

cfgVars == <<detectionsRequired, silencesRequired>>
smVars == <<lastMidiNote, consecutiveDetections, consecutiveSilences,
            pendingMidiNote, pendingFrequency>>
meterVars == <<noteChanged, currentMidiNote, currentFrequency, noteOffMidiNote>>
bufVars == <<overlapBuffer, framesProcessed>>
cbLocals == <<audioWindow, fundamentalFrequency, newMidiNote, fftData>>
resVars == <<fftw, paLib, pmLib, midiStream, paStream>>
outVars == <<console, printFrequency>>
mainVars == <<mpc, exitCode, logFile, teardown, outVars, errlog>>
histVars == <<delivered, nWindows, win0, detRun, silRun, prevCand>>
seenVars == <<pubCount, seenCount>>

vars == <<cfgVars, smVars, meterVars, bufVars, cbLocals, resVars, mainVars,
          histVars, seenVars, shouldStop, callbackCount, recordedDetections,
          ipc, cpc, midiOut>>

(***************************************************************************)
(* paCallback (lines 172-247), one action per step between accesses to     *)
(* state shared with the main thread.                                      *)
(***************************************************************************)
\* Lines 178-184: the samples of the buffer are appended to overlapBuffer.
paCallback(in) ==
    /\ cpc = "idle"
    /\ paStream = "running"
    /\ mpc # "crashed"
    /\ overlapBuffer' = overlapBuffer \o in
    /\ delivered' = delivered \o in
    /\ cpc' = "loop"
    /\ UNCHANGED <<cfgVars, smVars, meterVars, framesProcessed, cbLocals,
                   resVars, mainVars, nWindows, win0, detRun, silRun,
                   prevCand, seenVars, shouldStop, callbackCount,
                   recordedDetections, ipc, midiOut>>

\* Lines 187-211 and 222-228: a window is copied out and analysed, the
\* counters are updated and the branch is chosen.
CbAnalyze(spectrum) ==
    /\ cpc = "loop"
    /\ Len(overlapBuffer) >= FFT_SIZE
    /\ LET window == SubSeq(overlapBuffer, 1, FFT_SIZE)
           freq   == detectFundamentalFrequency(window, spectrum)
           note   == frequencyToMidiNote(freq)
           valid  == IsValidNote(note, freq)
           dets   == NextDetections(note, pendingMidiNote, consecutiveDetections)
           sils   == consecutiveSilences + 1
       IN  /\ fftw = "ready" \/ ~passesNoiseGate(window)
           /\ audioWindow' = window
           /\ fftData' = IF passesNoiseGate(window) THEN spectrum ELSE NoSpectrum
           /\ fundamentalFrequency' = freq
           /\ newMidiNote' = note
           /\ nWindows' = nWindows + 1
           /\ win0' = [last |-> lastMidiNote, len |-> Len(midiOut),
                       dets |-> consecutiveDetections,
                       sils |-> consecutiveSilences,
                       log |-> Len(recordedDetections)]
           /\ detRun' = IF ~valid THEN 0
                        ELSE IF note = prevCand THEN detRun + 1 ELSE 1
           /\ silRun' = IF valid THEN 0 ELSE silRun + 1
           /\ prevCand' = IF valid THEN note ELSE 0
           /\ IF valid
              THEN /\ consecutiveDetections' = dets
                   /\ pendingMidiNote' = note
                   /\ pendingFrequency' =
                          IF note = pendingMidiNote THEN pendingFrequency ELSE freq
                   /\ consecutiveSilences' = ResetSilences(consecutiveSilences)
                   /\ IF TriggersNoteOn(dets, detectionsRequired, note, lastMidiNote)
                      THEN /\ recordedDetections' =
                                  Append(recordedDetections,
                                         Detection(TimestampTicks(framesProcessed),
                                                   freq, note))
                           /\ cpc' = "on_off"
                      ELSE /\ UNCHANGED recordedDetections
                           /\ cpc' = "advance"
              ELSE /\ consecutiveSilences' = sils
                   /\ consecutiveDetections' = 0
                   /\ UNCHANGED <<pendingMidiNote, pendingFrequency,
                                  recordedDetections>>
                   /\ cpc' = IF TriggersNoteOff(sils, silencesRequired, lastMidiNote)
                             THEN "off_write" ELSE "advance"
    /\ UNCHANGED <<cfgVars, lastMidiNote, meterVars, bufVars, resVars, mainVars,
                   delivered, seenVars, shouldStop, callbackCount, ipc, midiOut>>

\* Lines 213-215.
CbOnOff ==
    /\ cpc = "on_off"
    /\ midiOut' = NoteOffBeforeOn(midiOut, lastMidiNote)
    /\ cpc' = "on_write"
    /\ UNCHANGED <<cfgVars, smVars, meterVars, bufVars, cbLocals, resVars,
                   mainVars, histVars, seenVars, shouldStop, callbackCount,
                   recordedDetections, ipc>>

\* Line 216.
CbOnWrite ==
    /\ cpc = "on_write"
    /\ midiOut' = Append(midiOut, NoteOnMessage(newMidiNote))
    /\ cpc' = "on_last"
    /\ UNCHANGED <<cfgVars, smVars, meterVars, bufVars, cbLocals, resVars,
                   mainVars, histVars, seenVars, shouldStop, callbackCount,
                   recordedDetections, ipc>>

\* Line 217.
CbOnLast ==
    /\ cpc = "on_last"
    /\ lastMidiNote' = newMidiNote
    /\ cpc' = "on_cur"
    /\ UNCHANGED <<cfgVars, consecutiveDetections, consecutiveSilences,
                   pendingMidiNote, pendingFrequency, meterVars, bufVars,
                   cbLocals, resVars, mainVars, histVars, seenVars, shouldStop,
                   callbackCount, recordedDetections, ipc, midiOut>>

\* Line 218.
CbOnCur ==
    /\ cpc = "on_cur"
    /\ currentMidiNote' = newMidiNote
    /\ pubCount' = pubCount + 1
    /\ cpc' = "on_freq"
    /\ UNCHANGED <<cfgVars, smVars, noteChanged, currentFrequency,
                   noteOffMidiNote, bufVars, cbLocals, resVars, mainVars,
                   histVars, seenCount, shouldStop, callbackCount,
                   recordedDetections, ipc, midiOut>>

\* Line 219.
CbOnFreq ==
    /\ cpc = "on_freq"
    /\ currentFrequency' = fundamentalFrequency
    /\ cpc' = "on_flag"
    /\ UNCHANGED <<cfgVars, smVars, noteChanged, currentMidiNote,
                   noteOffMidiNote, bufVars, cbLocals, resVars, mainVars,
                   histVars, seenVars, shouldStop, callbackCount,
                   recordedDetections, ipc, midiOut>>

\* Lines 220 and 234.
CbFlag ==
    /\ cpc \in {"on_flag", "off_flag"}
    /\ noteChanged' = TRUE
    /\ cpc' = "advance"
    /\ UNCHANGED <<cfgVars, smVars, currentMidiNote, currentFrequency,
                   noteOffMidiNote, bufVars, cbLocals, resVars, mainVars,
                   histVars, seenVars, shouldStop, callbackCount,
                   recordedDetections, ipc, midiOut>>

\* Line 229.
CbOffWrite ==
    /\ cpc = "off_write"
    /\ midiOut' = Append(midiOut, Pm_Message(144, lastMidiNote, 0))
    /\ cpc' = "off_store"
    /\ UNCHANGED <<cfgVars, smVars, meterVars, bufVars, cbLocals, resVars,
                   mainVars, histVars, seenVars, shouldStop, callbackCount,
                   recordedDetections, ipc>>

\* Line 230.
CbOffStore ==
    /\ cpc = "off_store"
    /\ noteOffMidiNote' = lastMidiNote
    /\ cpc' = "off_last"
    /\ UNCHANGED <<cfgVars, smVars, noteChanged, currentMidiNote,
                   currentFrequency, bufVars, cbLocals, resVars, mainVars,
                   histVars, seenVars, shouldStop, callbackCount,
                   recordedDetections, ipc, midiOut>>

\* Line 231.
CbOffLast ==
    /\ cpc = "off_last"
    /\ lastMidiNote' = 0
    /\ cpc' = "off_cur"
    /\ UNCHANGED <<cfgVars, consecutiveDetections, consecutiveSilences,
                   pendingMidiNote, pendingFrequency, meterVars, bufVars,
                   cbLocals, resVars, mainVars, histVars, seenVars, shouldStop,
                   callbackCount, recordedDetections, ipc, midiOut>>

\* Line 232.
CbOffCur ==
    /\ cpc = "off_cur"
    /\ currentMidiNote' = 0
    /\ pubCount' = pubCount + 1
    /\ cpc' = "off_freq"
    /\ UNCHANGED <<cfgVars, smVars, noteChanged, currentFrequency,
                   noteOffMidiNote, bufVars, cbLocals, resVars, mainVars,
                   histVars, seenCount, shouldStop, callbackCount,
                   recordedDetections, ipc, midiOut>>

\* Line 233.
CbOffFreq ==
    /\ cpc = "off_freq"
    /\ currentFrequency' = 0
    /\ cpc' = "off_flag"
    /\ UNCHANGED <<cfgVars, smVars, noteChanged, currentMidiNote,
                   noteOffMidiNote, bufVars, cbLocals, resVars, mainVars,
                   histVars, seenVars, shouldStop, callbackCount,
                   recordedDetections, ipc, midiOut>>

\* Lines 238-242: the window advances by the hop size.
CbAdvance ==
    /\ cpc = "advance"
    /\ overlapBuffer' = AdvanceBuffer(overlapBuffer)
    /\ framesProcessed' = framesProcessed + HOP_SIZE
    /\ audioWindow' = << >>
    /\ fftData' = NoSpectrum
    /\ fundamentalFrequency' = 0
    /\ newMidiNote' = 0
    /\ cpc' = "loop"
    /\ UNCHANGED <<cfgVars, smVars, meterVars, resVars, mainVars, histVars,
                   seenVars, shouldStop, callbackCount, recordedDetections,
                   ipc, midiOut>>

\* Lines 187 (loop exit) and 245-246.
CbReturn ==
    /\ cpc = "loop"
    /\ Len(overlapBuffer) < FFT_SIZE
    /\ callbackCount' = callbackCount + 1
    /\ cpc' = "idle"
    /\ UNCHANGED <<cfgVars, smVars, meterVars, bufVars, cbLocals, resVars,
                   mainVars, histVars, seenVars, shouldStop,
                   recordedDetections, ipc, midiOut>>

\* The steps of a callback in progress.
CbStep ==
    \/ CbOnOff \/ CbOnWrite \/ CbOnLast \/ CbOnCur \/ CbOnFreq \/ CbFlag
    \/ CbOffWrite \/ CbOffStore \/ CbOffLast \/ CbOffCur \/ CbOffFreq
    \/ CbAdvance \/ CbReturn

(***************************************************************************)
(* Initial states.                                                         *)
(***************************************************************************)
\* frequency_data.txt has not been written.
NoFile == [written |-> FALSE, lines |-> << >>]

\* The globals as their initialisers leave them (lines 73-75, 153-170).
InitGlobals ==
    /\ lastMidiNote = 0 /\ noteChanged = FALSE /\ shouldStop = FALSE
    /\ currentMidiNote = 0 /\ currentFrequency = 0 /\ noteOffMidiNote = 0
    /\ callbackCount = 0 /\ consecutiveDetections = 0
    /\ consecutiveSilences = 0 /\ pendingMidiNote = 0 /\ pendingFrequency = 0
    /\ overlapBuffer = << >> /\ framesProcessed = 0
    /\ recordedDetections = << >>
    /\ cpc = "idle" /\ audioWindow = << >> /\ fundamentalFrequency = 0
    /\ newMidiNote = 0 /\ fftData = NoSpectrum
    /\ midiOut = << >> /\ logFile = NoFile /\ exitCode = -1
    /\ console = << >> /\ errlog = << >> /\ printFrequency = 0
    /\ teardown = << >>
    /\ delivered = << >> /\ nWindows = 0
    /\ win0 = [last |-> 0, len |-> 0, dets |-> 0, sils |-> 0, log |-> 0]
    /\ detRun = 0 /\ silRun = 0 /\ prevCand = 0
    /\ pubCount = 0 /\ seenCount = 0

\* Startup has succeeded: the stream runs, main is in its loop and the input
\* thread waits for Enter.
Streaming ==
    /\ fftw = "ready" /\ paLib = "up" /\ pmLib = "up" /\ midiStream = "open"
    /\ paStream = "running" /\ mpc = "while" /\ ipc = "waiting"

(***************************************************************************)
(* The callback alone, for every configuration of the two thresholds:      *)
(* buffers of FRAMES_PER_BUFFER samples above the noise gate, any result   *)
(* of the detector.                                                        *)
(***************************************************************************)
\* Spectra with one peak: below the magnitude threshold at 439 Hz, and above
\* it at 199 Hz (note 55, not above the confidence threshold), 439 Hz (note
\* 69) and 521 Hz (note 72).
Peaks == {Tone(75, 5), Tone(34, 9), Tone(75, 9), Tone(89, 9)}

LoudBuffer == [i \in 1..FRAMES_PER_BUFFER |-> 6]

InitSM ==
    /\ InitGlobals
    /\ Streaming
    /\ detectionsRequired \in 1..MaxRequired
    /\ silencesRequired \in 1..MaxRequired

NextSM ==
    \/ /\ Len(delivered) + FRAMES_PER_BUFFER <= MaxStreamSM
       /\ paCallback(LoudBuffer)
    \/ \E spectrum \in Peaks : CbAnalyze(spectrum)
    \/ CbStep

SpecSM == InitSM /\ [][NextSM]_vars

(***************************************************************************)
(* The overlap buffer for every chunking of the sample stream: buffers of  *)
(* 1..MaxChunk samples, each at the noise gate's threshold (5) or above it *)
(* (-6); the thresholds are the program's.                                 *)
(***************************************************************************)
Samples == {5, -6}

InitBuf ==
    /\ InitGlobals
    /\ Streaming
    /\ detectionsRequired = CONSECUTIVE_DETECTIONS_REQUIRED
    /\ silencesRequired = CONSECUTIVE_SILENCE_REQUIRED

NextBuf ==
    \/ \E n \in 1..MaxChunk :
          /\ Len(delivered) + n <= MaxStreamBuf
          /\ \E in \in [1..n -> Samples] : paCallback(in)
    \/ CbAnalyze(Tone(75, 9))
    \/ CbStep

SpecBuf == InitBuf /\ [][NextBuf]_vars

(***************************************************************************)
(* The peak estimator for every spectrum over the bins at the two edges of *)
(* the band: bins 13 (76.2 Hz) and 342 (2003.9 Hz) lie outside             *)
(* [MIN_FREQUENCY, MAX_FREQUENCY], bins 14 (82.0 Hz), 340 (1992.2 Hz) and  *)
(* 341 (1998.0 Hz) inside; magnitudes are 0, the magnitude threshold and   *)
(* two values above it.                                                    *)
(***************************************************************************)
EdgeBins == {13, 14, 340, 341, 342}

Magnitudes == {0, 5, 6, 7}

NextPeak ==
    \/ /\ Len(delivered) + FRAMES_PER_BUFFER <= MaxStreamPeak
       /\ paCallback(LoudBuffer)
    \/ \E spectrum \in [EdgeBins -> Magnitudes] : CbAnalyze(spectrum)
    \/ CbStep

SpecPeak == InitBuf /\ [][NextPeak]_vars

(***************************************************************************)
(* main (lines 249-414).  PortAudio, PortMidi and FFTW are libraries: a    *)
(* call's success is an input.  Pa_StopStream and Pa_CloseStream return    *)
(* once the callback in progress has returned, and no callback runs after  *)
(* Pa_CloseStream; Pa_Terminate closes the streams still open and          *)
(* Pm_Terminate the MIDI streams still open.                               *)
(***************************************************************************)
\* What only paCallback writes.
cbOnly == <<cfgVars, smVars, currentMidiNote, currentFrequency, bufVars,
            cbLocals, histVars, pubCount, cpc, recordedDetections>>

Pa_Terminate(s) == IF s \in {"open", "running", "stopped"} THEN "closed" ELSE s

Pm_Terminate(s) == IF s = "open" THEN "closed" ELSE s

\* return 1 (lines 264, 272, 289, 298, 308, 329, 340).
ExitFailure(message) ==
    /\ errlog' = Append(errlog, message)
    /\ mpc' = "exited"
    /\ exitCode' = 1

\* Lines 256-257: initializeFFTW checks none of its three allocations.
MainInitFFTW(ok) ==
    /\ mpc = "init_fftw"
    /\ fftw' = IF ok THEN "ready" ELSE "null"
    /\ mpc' = "init_pa"
    /\ UNCHANGED <<cbOnly, outVars, errlog, teardown, noteChanged, noteOffMidiNote, callbackCount,
                   seenCount, paLib, pmLib, midiStream, paStream, exitCode,
                   logFile, ipc, midiOut, shouldStop>>

\* Lines 259-265.
MainPaInitialize(ok) ==
    /\ mpc = "init_pa"
    /\ IF ok
       THEN /\ paLib' = "up"
            /\ mpc' = "init_pm"
            /\ UNCHANGED <<fftw, exitCode, errlog>>
       ELSE /\ fftw' = "freed"
            /\ ExitFailure("PortAudio error")
            /\ UNCHANGED paLib
    /\ UNCHANGED <<cbOnly, outVars, teardown, noteChanged, noteOffMidiNote, callbackCount,
                   seenCount, pmLib, midiStream, paStream, logFile, ipc,
                   midiOut, shouldStop>>

\* Lines 267-273.
MainPmInitialize(ok) ==
    /\ mpc = "init_pm"
    /\ IF ok
       THEN /\ pmLib' = "up"
            /\ mpc' = "find_output"
            /\ UNCHANGED <<paLib, exitCode, errlog>>
       ELSE /\ paLib' = "down"
            /\ ExitFailure("PortMidi error")
            /\ UNCHANGED pmLib
    /\ UNCHANGED <<cbOnly, outVars, teardown, noteChanged, noteOffMidiNote, callbackCount,
                   seenCount, fftw, midiStream, paStream, logFile, ipc,
                   midiOut, shouldStop>>

\* Lines 275-290.
MainFindOutput(found) ==
    /\ mpc = "find_output"
    /\ IF found
       THEN /\ mpc' = "open_output"
            /\ UNCHANGED <<paLib, pmLib, exitCode, errlog>>
       ELSE /\ paLib' = "down"
            /\ pmLib' = "down"
            /\ ExitFailure("No MIDI output device found")
    /\ UNCHANGED <<cbOnly, outVars, teardown, noteChanged, noteOffMidiNote, callbackCount,
                   seenCount, fftw, midiStream, paStream, logFile, ipc,
                   midiOut, shouldStop>>

\* Lines 292-299.
MainOpenOutput(ok) ==
    /\ mpc = "open_output"
    /\ IF ok
       THEN /\ midiStream' = "open"
            /\ mpc' = "find_input"
            /\ UNCHANGED <<paLib, pmLib, fftw, exitCode, errlog>>
       ELSE /\ paLib' = "down"
            /\ pmLib' = "down"
            /\ fftw' = "freed"
            /\ ExitFailure("PortMidi error")
            /\ UNCHANGED midiStream
    /\ UNCHANGED <<cbOnly, outVars, teardown, noteChanged, noteOffMidiNote, callbackCount,
                   seenCount, paStream, logFile, ipc, midiOut, shouldStop>>

\* Lines 301-313.
MainFindInput(found) ==
    /\ mpc = "find_input"
    /\ IF found
       THEN /\ mpc' = "open_stream"
            /\ UNCHANGED <<paLib, pmLib, fftw, midiStream, exitCode, errlog>>
       ELSE /\ paLib' = "down"
            /\ pmLib' = "down"
            /\ midiStream' = Pm_Terminate(midiStream)
            /\ fftw' = "freed"
            /\ ExitFailure("No default input device found")
    /\ UNCHANGED <<cbOnly, outVars, teardown, noteChanged, noteOffMidiNote, callbackCount,
                   seenCount, paStream, logFile, ipc, midiOut, shouldStop>>

\* Lines 315-330.
MainOpenStream(ok) ==
    /\ mpc = "open_stream"
    /\ IF ok
       THEN /\ paStream' = "open"
            /\ mpc' = "start_stream"
            /\ UNCHANGED <<paLib, pmLib, fftw, midiStream, exitCode, errlog>>
       ELSE /\ paLib' = "down"
            /\ pmLib' = "down"
            /\ midiStream' = Pm_Terminate(midiStream)
            /\ fftw' = "freed"
            /\ ExitFailure("PortAudio error")
            /\ UNCHANGED paStream
    /\ UNCHANGED <<cbOnly, outVars, teardown, noteChanged, noteOffMidiNote, callbackCount,
                   seenCount, logFile, ipc, midiOut, shouldStop>>

\* Lines 332-341.
MainStartStream(ok) ==
    /\ mpc = "start_stream"
    /\ IF ok
       THEN /\ paStream' = "running"
            /\ mpc' = "spawn"
            /\ UNCHANGED <<paLib, pmLib, fftw, midiStream, exitCode, errlog>>
       ELSE /\ paStream' = "closed"
            /\ paLib' = "down"
            /\ pmLib' = "down"
            /\ midiStream' = Pm_Terminate(midiStream)
            /\ fftw' = "freed"
            /\ ExitFailure("PortAudio error")
    /\ UNCHANGED <<cbOnly, outVars, teardown, noteChanged, noteOffMidiNote, callbackCount,
                   seenCount, logFile, ipc, midiOut, shouldStop>>

\* Lines 343-348: the input thread is started.
MainSpawnInput ==
    /\ mpc = "spawn"
    /\ ipc' = "waiting"
    /\ mpc' = "while"
    /\ UNCHANGED <<cbOnly, outVars, errlog, teardown, noteChanged, noteOffMidiNote, callbackCount,
                   seenCount, resVars, exitCode, logFile, midiOut, shouldStop>>

\* Mutant: the loop does not test the stop flag.
MainWhile_Forever ==
    /\ mpc = "while"
    /\ mpc' = "flag"
    /\ UNCHANGED <<cbOnly, outVars, errlog, teardown, noteChanged,
                   noteOffMidiNote, callbackCount, seenCount, resVars,
                   exitCode, logFile, ipc, midiOut, shouldStop>>

\* Line 351.
MainWhile ==
    /\ mpc = "while"
    /\ mpc' = IF shouldStop THEN "join" ELSE "flag"
    /\ UNCHANGED <<cbOnly, outVars, errlog, teardown, noteChanged, noteOffMidiNote, callbackCount,
                   seenCount, resVars, exitCode, logFile, ipc, midiOut,
                   shouldStop>>

\* Line 353.
MainLoadFlag ==
    /\ mpc = "flag"
    /\ mpc' = IF noteChanged THEN "cur" ELSE "sleep"
    /\ UNCHANGED <<cbOnly, outVars, errlog, teardown, noteChanged, noteOffMidiNote, callbackCount,
                   seenCount, resVars, exitCode, logFile, ipc, midiOut,
                   shouldStop>>

\* Line 354: the meter is read.
MainReadCur ==
    /\ mpc = "cur"
    /\ seenCount' = pubCount
    /\ mpc' = IF currentMidiNote > 0 THEN "print_freq" ELSE "off_test"
    /\ UNCHANGED <<cbOnly, outVars, errlog, teardown, noteChanged, noteOffMidiNote, callbackCount,
                   resVars, exitCode, logFile, ipc, midiOut, shouldStop>>

\* A status line of std::cout.
StatusLine(kind, frequency, name) ==
    [kind |-> kind, frequency |-> frequency, name |-> name]

\* Line 355, the operand currentFrequency: the operands of the chain of <<
\* are evaluated from left to right.
MainPrintFreq ==
    /\ mpc = "print_freq"
    /\ printFrequency' = currentFrequency
    /\ mpc' = "print_on"
    /\ UNCHANGED <<cbOnly, console, errlog, teardown, noteChanged,
                   noteOffMidiNote, callbackCount, seenCount, resVars,
                   exitCode, logFile, ipc, midiOut, shouldStop>>

\* Line 355, the operand getNoteName(currentMidiNote), and the line is
\* written.
MainPrintOn ==
    /\ mpc = "print_on"
    /\ console' = Append(console,
                         StatusLine("Detected Frequency", printFrequency,
                                    getNoteName(currentMidiNote)))
    /\ mpc' = "clear"
    /\ UNCHANGED <<cbOnly, printFrequency, errlog, teardown, noteChanged, noteOffMidiNote, callbackCount,
                   seenCount, resVars, exitCode, logFile, ipc, midiOut,
                   shouldStop>>

\* Line 358.
MainOffTest ==
    /\ mpc = "off_test"
    /\ mpc' = IF noteOffMidiNote > 0 THEN "off_print" ELSE "clear"
    /\ UNCHANGED <<cbOnly, outVars, errlog, teardown, noteChanged, noteOffMidiNote, callbackCount,
                   seenCount, resVars, exitCode, logFile, ipc, midiOut,
                   shouldStop>>

\* Lines 359-360.
MainOffPrint ==
    /\ mpc = "off_print"
    /\ console' = Append(console,
                         StatusLine("Note Off", 0, getNoteName(noteOffMidiNote)))
    /\ noteOffMidiNote' = 0
    /\ mpc' = "clear"
    /\ UNCHANGED <<cbOnly, printFrequency, errlog, teardown, noteChanged, callbackCount, seenCount, resVars,
                   exitCode, logFile, ipc, midiOut, shouldStop>>

\* Line 363.
MainClearFlag ==
    /\ mpc = "clear"
    /\ noteChanged' = FALSE
    /\ mpc' = "sleep"
    /\ UNCHANGED <<cbOnly, outVars, errlog, teardown, noteOffMidiNote, callbackCount, seenCount, resVars,
                   exitCode, logFile, ipc, midiOut, shouldStop>>

\* Lines 366-375: every five seconds the callback count is printed and reset.
MainSleep(logDue) ==
    /\ mpc = "sleep"
    /\ callbackCount' = IF logDue THEN 0 ELSE callbackCount
    /\ mpc' = "while"
    /\ UNCHANGED <<cbOnly, outVars, errlog, teardown, noteChanged, noteOffMidiNote, seenCount, resVars,
                   exitCode, logFile, ipc, midiOut, shouldStop>>

\* Mutant: the input thread is detached instead of joined.
MainJoin_Detach ==
    /\ mpc = "join"
    /\ teardown' = Append(teardown, "detach")
    /\ mpc' = "final_test"
    /\ UNCHANGED <<cbOnly, outVars, errlog, noteChanged, noteOffMidiNote, callbackCount,
                   seenCount, resVars, exitCode, logFile, ipc, midiOut,
                   shouldStop>>

\* Line 379: join returns when the input thread has finished.
MainJoin ==
    /\ mpc = "join"
    /\ ipc = "finished"
    /\ ipc' = "joined"
    /\ mpc' = "final_test"
    /\ teardown' = Append(teardown, "join")
    /\ UNCHANGED <<cbOnly, outVars, errlog, noteChanged, noteOffMidiNote, callbackCount,
                   seenCount, resVars, exitCode, logFile, midiOut, shouldStop>>

\* Line 381.
MainFinalTest ==
    /\ mpc = "final_test"
    /\ mpc' = IF lastMidiNote > 0 THEN "final_write" ELSE "stop"
    /\ UNCHANGED <<cbOnly, outVars, errlog, teardown, noteChanged, noteOffMidiNote, callbackCount,
                   seenCount, resVars, exitCode, logFile, ipc, midiOut,
                   shouldStop>>

\* Line 382: lastMidiNote is read again for the message.
MainFinalWrite ==
    /\ mpc = "final_write"
    /\ midiOut' = Append(midiOut, Pm_Message(144, lastMidiNote, 0))
    /\ mpc' = "stop"
    /\ teardown' = Append(teardown, "Pm_WriteShort")
    /\ UNCHANGED <<cbOnly, outVars, errlog, noteChanged, noteOffMidiNote, callbackCount,
                   seenCount, resVars, exitCode, logFile, ipc, shouldStop>>

\* Mutant: a failure to stop the stream ends the program.
MainStopStream_Aborts(ok) ==
    /\ mpc = "stop"
    /\ cpc = "idle"
    /\ paStream' = IF ok THEN "stopped" ELSE paStream
    /\ mpc' = IF ok THEN "close" ELSE "exited"
    /\ exitCode' = IF ok THEN exitCode ELSE 1
    /\ teardown' = Append(teardown, "Pa_StopStream")
    /\ errlog' = IF ok THEN errlog ELSE Append(errlog, "PortAudio error")
    /\ UNCHANGED <<cbOnly, outVars, noteChanged, noteOffMidiNote,
                   callbackCount, seenCount, fftw, paLib, pmLib, midiStream,
                   logFile, ipc, midiOut, shouldStop>>

\* Lines 384-387: a failure is reported and teardown goes on.
MainStopStream(ok) ==
    /\ mpc = "stop"
    /\ cpc = "idle"
    /\ paStream' = IF ok THEN "stopped" ELSE paStream
    /\ mpc' = "close"
    /\ teardown' = Append(teardown, "Pa_StopStream")
    /\ errlog' = IF ok THEN errlog ELSE Append(errlog, "PortAudio error")
    /\ UNCHANGED <<cbOnly, outVars, noteChanged, noteOffMidiNote, callbackCount,
                   seenCount, fftw, paLib, pmLib, midiStream, exitCode,
                   logFile, ipc, midiOut, shouldStop>>

\* Mutant: the stream is closed without waiting for the callback in
\* progress.
MainCloseStream_NoWait(ok) ==
    /\ mpc = "close"
    /\ paStream' = "closed"
    /\ mpc' = "pm_close"
    /\ teardown' = Append(teardown, "Pa_CloseStream")
    /\ errlog' = IF ok THEN errlog ELSE Append(errlog, "PortAudio error")
    /\ UNCHANGED <<cbOnly, outVars, noteChanged, noteOffMidiNote,
                   callbackCount, seenCount, fftw, paLib, pmLib, midiStream,
                   exitCode, logFile, ipc, midiOut, shouldStop>>

\* Lines 388-391.
MainCloseStream(ok) ==
    /\ mpc = "close"
    /\ cpc = "idle"
    /\ paStream' = "closed"
    /\ mpc' = "pm_close"
    /\ teardown' = Append(teardown, "Pa_CloseStream")
    /\ errlog' = IF ok THEN errlog ELSE Append(errlog, "PortAudio error")
    /\ UNCHANGED <<cbOnly, outVars, noteChanged, noteOffMidiNote, callbackCount,
                   seenCount, fftw, paLib, pmLib, midiStream, exitCode,
                   logFile, ipc, midiOut, shouldStop>>

\* Line 393.
MainPmClose ==
    /\ mpc = "pm_close"
    /\ midiStream' = "closed"
    /\ mpc' = "terminate"
    /\ teardown' = Append(teardown, "Pm_Close")
    /\ UNCHANGED <<cbOnly, outVars, errlog, noteChanged, noteOffMidiNote, callbackCount,
                   seenCount, fftw, paLib, pmLib, paStream, exitCode, logFile,
                   ipc, midiOut, shouldStop>>

\* Lines 394-397.
MainTerminate ==
    /\ mpc = "terminate"
    /\ pmLib' = "down"
    /\ paLib' = "down"
    /\ paStream' = Pa_Terminate(paStream)
    /\ fftw' = "freed"
    /\ mpc' = "save"
    /\ teardown' = teardown \o <<"Pm_Terminate", "Pa_Terminate", "cleanupFFTW">>
    /\ UNCHANGED <<cbOnly, outVars, errlog, noteChanged, noteOffMidiNote, callbackCount,
                   seenCount, midiStream, exitCode, logFile, ipc, midiOut,
                   shouldStop>>

\* One line of frequency_data.txt (line 404).
LogLine(det) == <<det.timeSec, det.frequencyHz, det.midiNote>>

\* Mutant: the loop over the detections starts at the second one.
MainSaveLog_SkipsFirst(opens) ==
    /\ mpc = "save"
    /\ logFile' = IF opens
                  THEN [written |-> TRUE,
                        lines |-> [k \in 1..Len(recordedDetections) - 1 |->
                                      LogLine(recordedDetections[k + 1])]]
                  ELSE NoFile
    /\ teardown' = Append(teardown, "save")
    /\ errlog' = IF opens THEN errlog
                 ELSE Append(errlog, "Unable to open frequency_data.txt")
    /\ exitCode' = 0
    /\ mpc' = "exited"
    /\ UNCHANGED <<cbOnly, outVars, noteChanged, noteOffMidiNote, callbackCount,
                   seenCount, resVars, ipc, midiOut, shouldStop>>

\* Lines 399-413: the detections are written when the file opens.
MainSaveLog(opens) ==
    /\ mpc = "save"
    /\ logFile' = IF opens
                  THEN [written |-> TRUE,
                        lines |-> [k \in 1..Len(recordedDetections) |->
                                      LogLine(recordedDetections[k])]]
                  ELSE NoFile
    /\ errlog' = IF opens THEN errlog
                 ELSE Append(errlog, "Unable to open frequency_data.txt")
    /\ exitCode' = 0
    /\ mpc' = "exited"
    /\ teardown' = Append(teardown, "save")
    /\ UNCHANGED <<cbOnly, outVars, noteChanged, noteOffMidiNote, callbackCount,
                   seenCount, resVars, ipc, midiOut, shouldStop>>

(***************************************************************************)
(* The input thread (lines 344-348).                                       *)
(***************************************************************************)
\* Lines 346-347: Enter is read and the stop flag set.
InputEnter ==
    /\ ipc = "waiting"
    /\ mpc # "crashed"
    /\ shouldStop' = TRUE
    /\ ipc' = "exiting"
    /\ UNCHANGED <<cbOnly, noteChanged, noteOffMidiNote, callbackCount,
                   seenCount, resVars, mainVars, midiOut>>

\* Line 348: the thread's function returns.
InputExit ==
    /\ ipc = "exiting"
    /\ mpc # "crashed"
    /\ ipc' = "finished"
    /\ UNCHANGED <<cbOnly, noteChanged, noteOffMidiNote, callbackCount,
                   seenCount, resVars, mainVars, midiOut, shouldStop>>

(***************************************************************************)
(* Lines 98-104 with the buffers of a failed allocation: fft writes        *)
(* through a null fftw_input, and the process dies.                        *)
(***************************************************************************)
CbCrash ==
    /\ cpc = "loop"
    /\ Len(overlapBuffer) >= FFT_SIZE
    /\ fftw = "null"
    /\ passesNoiseGate(SubSeq(overlapBuffer, 1, FFT_SIZE))
    /\ cpc' = "crashed"
    /\ mpc' = "crashed"
    /\ exitCode' = 139
    /\ UNCHANGED <<cfgVars, smVars, meterVars, bufVars, cbLocals, resVars,
                   logFile, teardown, outVars, errlog, histVars, seenVars,
                   shouldStop, callbackCount, recordedDetections, ipc, midiOut>>

(***************************************************************************)
(* The whole program, as built: both thresholds 1, buffers of              *)
(* FRAMES_PER_BUFFER samples.                                              *)
(***************************************************************************)
Init ==
    /\ InitGlobals
    /\ detectionsRequired = CONSECUTIVE_DETECTIONS_REQUIRED
    /\ silencesRequired = CONSECUTIVE_SILENCE_REQUIRED
    /\ fftw = "none" /\ paLib = "down" /\ pmLib = "down"
    /\ midiStream = "null" /\ paStream = "none"
    /\ mpc = "init_fftw" /\ ipc = "unborn"

MainStartup ==
    \E ok \in BOOLEAN :
        \/ MainInitFFTW(ok) \/ MainPaInitialize(ok) \/ MainPmInitialize(ok)
        \/ MainFindOutput(ok) \/ MainOpenOutput(ok) \/ MainFindInput(ok)
        \/ MainOpenStream(ok) \/ MainStartStream(ok)

MainLoop ==
    \/ MainSpawnInput \/ MainWhile \/ MainLoadFlag \/ MainReadCur
    \/ MainPrintFreq \/ MainPrintOn \/ MainOffTest \/ MainOffPrint \/ MainClearFlag
    \/ \E logDue \in BOOLEAN : MainSleep(logDue)

MainShutdown ==
    \/ MainJoin \/ MainFinalTest \/ MainFinalWrite
    \/ \E ok \in BOOLEAN : MainStopStream(ok) \/ MainCloseStream(ok)
    \/ MainPmClose \/ MainTerminate
    \/ \E opens \in BOOLEAN : MainSaveLog(opens)

ProgramPeaks == {Tone(75, 5), Tone(75, 9), Tone(89, 9)}

Next ==
    \/ MainStartup
    \/ MainLoop
    \/ MainShutdown
    \/ InputEnter
    \/ InputExit
    \/ /\ Len(delivered) + FRAMES_PER_BUFFER <= MaxStream
       /\ paCallback(LoudBuffer)
    \/ \E spectrum \in ProgramPeaks : CbAnalyze(spectrum)
    \/ CbStep
    \/ CbCrash

Spec == Init /\ [][Next]_vars

\* The program with its threads scheduled fairly: a step of main that is
\* possible is eventually taken (join waits for the input thread,
\* Pa_StopStream and Pa_CloseStream for the callback in progress), the
\* input thread returns once it has set the stop flag, and a callback in
\* progress goes on to its end.
FairSpec ==
    /\ Spec
    /\ WF_vars(MainLoop \/ MainShutdown)
    /\ WF_vars(InputExit)
    /\ WF_vars(CbStep \/ \E spectrum \in ProgramPeaks : CbAnalyze(spectrum))

(***************************************************************************)
(* Vocabulary of the claims.                                               *)
(***************************************************************************)
IsNoteOn(m) == m.velocity > 0

IsNoteOff(m) == m.velocity = 0

\* The notes sounding at the MIDI device after the first i messages of out:
\* those with more Note-Ons than Note-Offs.
SoundingAfter(out, i) ==
    {n \in {out[j].note : j \in 1..i} :
        Cardinality({j \in 1..i : out[j].note = n /\ IsNoteOn(out[j])})
      > Cardinality({j \in 1..i : out[j].note = n /\ IsNoteOff(out[j])})}

\* The window being processed has been decided and its events emitted.
WindowDone == cpc = "advance"

\* The messages written while processing the current window.
Emitted == SubSeq(midiOut, win0.len + 1, Len(midiOut))

WindowValid == IsValidNote(newMidiNote, fundamentalFrequency)

\* The place of a call in main's teardown, 0 when it has not been made.
Position(call) ==
    IF \E i \in 1..Len(teardown) : teardown[i] = call
    THEN CHOOSE i \in 1..Len(teardown) : teardown[i] = call
    ELSE 0

Before(a, b) == Position(b) > 0 => (Position(a) > 0 /\ Position(a) < Position(b))

(***************************************************************************)
(* Claims about the note state machine, under SpecSM.                      *)
(***************************************************************************)
\* C1: in the stream of emitted events a NoteOn is emitted only while no
\* note sounds and a NoteOff only for the note that sounds, so at most one
\* note is active at any time; between windows the sounding note is
\* lastMidiNote.
C1_Monophonic ==
    /\ \A i \in 1..Len(midiOut) :
          LET before == SoundingAfter(midiOut, i - 1)
          IN  /\ IsNoteOn(midiOut[i]) => before = {}
              /\ IsNoteOff(midiOut[i]) => before = {midiOut[i].note}
    /\ Cardinality(SoundingAfter(midiOut, Len(midiOut))) <= 1
    /\ cpc \in {"idle", "loop"} =>
          SoundingAfter(midiOut, Len(midiOut))
            = (IF lastMidiNote > 0 THEN {lastMidiNote} ELSE {})

C1_Witness ==
    /\ detectionsRequired = 2 /\ silencesRequired = 2
    /\ Len(midiOut) >= 3
    /\ \E i \in 1..Len(midiOut) - 1 :
          IsNoteOff(midiOut[i]) /\ IsNoteOn(midiOut[i + 1])

\* C2: when note A is active and a window's candidate B # A reaches the
\* detection threshold, the window emits exactly NoteOff(A), NoteOn(B), in
\* that order, and B becomes the active note; and a window that emits a
\* NoteOn while a note is active emits that note's NoteOff directly before.
C2_SwitchOffThenOn ==
    (WindowDone /\ win0.last > 0) =>
        /\ (/\ WindowValid
            /\ newMidiNote # win0.last
            /\ consecutiveDetections >= detectionsRequired)
           => /\ Emitted = << Pm_Message(144, win0.last, 0),
                              Pm_Message(144, newMidiNote, 100) >>
              /\ lastMidiNote = newMidiNote
        /\ (\E i \in 1..Len(Emitted) : IsNoteOn(Emitted[i]))
           => Emitted = << Pm_Message(144, win0.last, 0),
                           Pm_Message(144, newMidiNote, 100) >>

C2_Witness ==
    /\ WindowDone /\ win0.last > 0 /\ WindowValid
    /\ newMidiNote # win0.last
    /\ detectionsRequired = 2
    /\ consecutiveDetections >= detectionsRequired
    /\ Len(Emitted) = 2

\* C3 as stated: counted from ANY state with no active note, the NoteOn
\* comes on the detectionsRequired-th window of the same candidate and on no
\* earlier one.  The current window is the j-th window fed from the state
\* j - 1 windows back, for every j up to the length detRun of the run of this
\* candidate; each of those states had no active note.
C3_FromAnyState ==
    (WindowDone /\ WindowValid /\ win0.last = 0) =>
        \A j \in 1..Min(detRun, detectionsRequired) :
            (Emitted # << >>) <=> (j = detectionsRequired)

\* C3 as amended: with no active note, a window carrying candidate N emits
\* NoteOn(N), and only that, exactly when it is the detectionsRequired-th
\* window of an uninterrupted run of N counted from the run's first window
\* (a silent window or a different candidate restarts the run); it emits
\* nothing otherwise.
C3_NoteOnAtThreshold ==
    (WindowDone /\ WindowValid /\ win0.last = 0) =>
        /\ detRun <= detectionsRequired
        /\ Emitted = (IF detRun = detectionsRequired
                      THEN << Pm_Message(144, newMidiNote, 100) >>
                      ELSE << >>)
        /\ detRun = detectionsRequired => lastMidiNote = newMidiNote

C3_Witness ==
    /\ WindowDone /\ WindowValid /\ win0.last = 0
    /\ detectionsRequired = 2 /\ detRun = 2
    /\ win0.len >= 2
    /\ Len(Emitted) = 1

\* C4: while a note N is active, a silent window (no candidate, or one not
\* above the confidence threshold) emits NoteOff(N), and only that, exactly
\* when it is the silencesRequired-th window of the run of silent windows,
\* after which no note is active; a silent window with no active note emits
\* nothing.
C4_NoteOffAtThreshold ==
    (WindowDone /\ ~WindowValid) =>
        /\ win0.last > 0 =>
              /\ silRun <= silencesRequired
              /\ Emitted = (IF silRun = silencesRequired
                            THEN << Pm_Message(144, win0.last, 0) >>
                            ELSE << >>)
              /\ silRun = silencesRequired => lastMidiNote = 0
        /\ win0.last = 0 => Emitted = << >> /\ lastMidiNote = 0

C4_Witness ==
    /\ WindowDone /\ ~WindowValid /\ win0.last > 0
    /\ silencesRequired = 2 /\ silRun = 2
    /\ Len(Emitted) = 1
    /\ fundamentalFrequency > 0

(***************************************************************************)
(* Claims about the whole program, under Spec, and about the overlap       *)
(* buffer, under SpecBuf.                                                  *)
(***************************************************************************)
IsPrefix(a, b) == Len(a) <= Len(b) /\ SubSeq(b, 1, Len(a)) = a

\* The note numbers of the Note-Ons of out, in order.
RECURSIVE NoteOnNotes(_)
NoteOnNotes(out) ==
    IF out = << >> THEN << >>
    ELSE IF IsNoteOn(Head(out))
         THEN << Head(out).note >> \o NoteOnNotes(Tail(out))
         ELSE NoteOnNotes(Tail(out))

ExitedNormally == mpc = "exited" /\ exitCode = 0

\* C5: when the program has shut down and written frequency_data.txt, the
\* file holds one line per NoteOn the callback wrote, in the order written
\* and with its note number, and nothing else; whenever no NoteOn is between
\* its log entry and its MIDI write, the in-memory list matches the NoteOns
\* written; and the list only ever grows at its end.
C5_LogHoldsEveryNoteOn ==
    /\ [](/\ (ExitedNormally /\ logFile.written) =>
                /\ Len(logFile.lines) = Len(recordedDetections)
                /\ [k \in 1..Len(logFile.lines) |-> logFile.lines[k][3]]
                     = NoteOnNotes(midiOut)
          /\ cpc \notin {"on_off", "on_write", "crashed"} =>
                [k \in 1..Len(recordedDetections) |->
                    recordedDetections[k].midiNote] = NoteOnNotes(midiOut))
    /\ [][IsPrefix(recordedDetections, recordedDetections')]_vars

C5_Witness ==
    /\ ExitedNormally /\ logFile.written
    /\ Len(logFile.lines) >= 2
    \* main wrote its final Note-Off and a callback wrote a NoteOn after it
    /\ Position("Pm_WriteShort") > 0
    /\ IsNoteOn(midiOut[Len(midiOut)])

\* C6: once the program has terminated normally, no note is left sounding at
\* the MIDI output (every Note-On was followed by a Note-Off for its note)
\* and no Note-Off was written for a note that was not sounding.
C6_NoNoteLeftSounding ==
    ExitedNormally =>
        /\ SoundingAfter(midiOut, Len(midiOut)) = {}
        /\ \A i \in 1..Len(midiOut) :
              IsNoteOff(midiOut[i]) =>
                  midiOut[i].note \in SoundingAfter(midiOut, i - 1)

\* C7: the k-th window taken (k = nWindows - 1, counted from 0) holds the
\* delivered samples k*HOP_SIZE+1 .. k*HOP_SIZE+FFT_SIZE and is processed
\* with framesProcessed = k*HOP_SIZE; framesProcessed is HOP_SIZE times the
\* number of windows whose processing is complete; and when the callback
\* returns, every window the delivered samples contain has been taken (two
\* windows for FFT_SIZE + HOP_SIZE samples).
WindowInProgress == cpc \notin {"idle", "loop"}

WindowsIn(n) == IF n < FFT_SIZE THEN 0 ELSE (n - FFT_SIZE) \div HOP_SIZE + 1

C7_WindowsAtHopStride ==
    /\ WindowInProgress =>
          /\ framesProcessed = (nWindows - 1) * HOP_SIZE
          /\ framesProcessed + FFT_SIZE <= Len(delivered)
          /\ audioWindow = SubSeq(delivered, framesProcessed + 1,
                                  framesProcessed + FFT_SIZE)
    /\ ~WindowInProgress => framesProcessed = nWindows * HOP_SIZE
    /\ cpc = "idle" => nWindows = WindowsIn(Len(delivered))
    /\ (cpc = "idle" /\ Len(delivered) = FFT_SIZE + HOP_SIZE) =>
          nWindows = 2 /\ framesProcessed = 2 * HOP_SIZE

C7_Witness ==
    /\ cpc = "advance"
    /\ nWindows = 2
    /\ callbackCount = 0
    /\ Len(delivered) = FFT_SIZE + HOP_SIZE
    /\ audioWindow[1] # audioWindow[2]
    /\ delivered[1] # audioWindow[1]

\* C8: the display loop is not left with noteChanged false while the latest
\* note change (the latest write of currentMidiNote by the callback, whose
\* noteChanged = true has been stored) has not been read by the loop.
MidPublish == cpc \in {"on_freq", "on_flag", "off_freq", "off_flag"}

C8_LatestChangeObserved ==
    (~noteChanged /\ ~MidPublish) => seenCount = pubCount

\* C9: the step that sets shouldStop changes nothing of the callback, and a
\* callback in progress ends only by returning after its last window; the
\* input thread has been joined before Pa_StopStream, Pa_CloseStream,
\* Pm_Close or the writing of the log; and the log is written only after
\* Pa_StopStream and Pa_CloseStream, with the stream closed.
C9_ShutdownOrder ==
    /\ [](/\ Before("join", "Pa_StopStream")
          /\ Before("join", "Pa_CloseStream")
          /\ Before("join", "Pm_Close")
          /\ Before("join", "save")
          /\ Before("Pa_StopStream", "Pa_CloseStream")
          /\ Before("Pa_CloseStream", "save")
          /\ Position("join") > 0 <=> ipc = "joined"
          /\ Position("Pa_StopStream") > 0 => ipc = "joined"
          /\ Position("save") > 0 => paStream = "closed" /\ cpc = "idle"
          /\ (ipc # "unborn" /\ (paStream \in {"stopped", "closed"}
                                 \/ midiStream = "closed"))
                => ipc = "joined")
    /\ [][shouldStop' # shouldStop =>
             UNCHANGED <<cpc, smVars, meterVars, bufVars, cbLocals, midiOut,
                         recordedDetections, paStream>>]_vars
    /\ [][(cpc # "idle" /\ cpc' = "idle") =>
             /\ Len(overlapBuffer) < FFT_SIZE
             /\ callbackCount' = callbackCount + 1]_vars

C9_Witness ==
    /\ ExitedNormally
    /\ Position("save") > 0
    /\ nWindows >= 1
    /\ Len(midiOut) >= 1

\* C10: after a fatal startup failure the program has exited with a non-zero
\* status and holds no resource; in particular a failed allocation of the
\* transform's buffers leads to nothing but that exit.
Released ==
    /\ fftw \in {"none", "freed"}
    /\ paLib = "down" /\ pmLib = "down"
    /\ midiStream # "open"
    /\ paStream \notin {"open", "running", "stopped"}

C10_FailureReleasesAll ==
    /\ (mpc = "exited" /\ exitCode = 1) => Released
    /\ fftw = "null" => mpc = "init_pa"

(***************************************************************************)
(* Claims about teardown, under Spec.                                      *)
(***************************************************************************)
\* The calls of lines 384-396 and the writing of the log, in program order.
TeardownCalls ==
    << "Pa_StopStream", "Pa_CloseStream", "Pm_Close", "Pm_Terminate",
       "Pa_Terminate", "cleanupFFTW", "save" >>

Reported(message) == \E i \in 1..Len(errlog) : errlog[i] = message

\* C11: whichever of Pa_StopStream, Pa_CloseStream and the opening of the
\* log file fail, a program that reached Pa_StopStream ends only after each
\* of Pa_StopStream, Pa_CloseStream, Pm_Close, Pm_Terminate, Pa_Terminate,
\* cleanupFFTW and the log step was executed, once and in this order, with
\* every resource released and exit status 0; a step that has reported a
\* failure is followed by the next step; and when the file cannot be opened
\* nothing is written.
C11_TeardownRunsToTheEnd ==
    /\ (mpc = "exited" /\ Position("Pa_StopStream") > 0) =>
          /\ SubSeq(teardown, Position("Pa_StopStream"), Len(teardown))
               = TeardownCalls
          /\ Released /\ fftw = "freed"
          /\ midiStream = "closed" /\ paStream = "closed"
          /\ exitCode = 0
    /\ \A i \in 1..Len(TeardownCalls) - 1 :
          (Position(TeardownCalls[i]) > 0 /\ mpc = "exited") =>
              Position(TeardownCalls[i + 1]) = Position(TeardownCalls[i]) + 1
    /\ Reported("Unable to open frequency_data.txt") =>
          /\ logFile = NoFile
          /\ mpc = "exited" /\ exitCode = 0

C11_Witness ==
    /\ mpc = "exited" /\ exitCode = 0
    /\ errlog = << "PortAudio error", "PortAudio error",
                   "Unable to open frequency_data.txt" >>
    /\ Len(recordedDetections) >= 1
    /\ Len(teardown) >= 8

(***************************************************************************)
(* Claims about the peak estimator and the noise gate, under SpecPeak and  *)
(* SpecBuf.                                                                *)
(***************************************************************************)
\* The bins of a spectrum, from bin 1 on, whose frequency
\* bin * SAMPLE_RATE / TransformSize lies in [MIN_FREQUENCY, MAX_FREQUENCY].
InBandBins(spectrum) ==
    {i \in DOMAIN spectrum :
        /\ i >= 1
        /\ i * SAMPLE_RATE >= MIN_FREQUENCY * TransformSize
        /\ i * SAMPLE_RATE <= MAX_FREQUENCY * TransformSize}

\* The largest magnitude among the bins of the band, 0 when it has no bin.
LargestInBand(spectrum) ==
    IF InBandBins(spectrum) = {} THEN 0
    ELSE LET top == CHOOSE i \in InBandBins(spectrum) :
                        \A j \in InBandBins(spectrum) :
                            spectrum[j] <= spectrum[i]
         IN  spectrum[top]

\* The spectrum with every bin outside the band silenced.
BandOnly(spectrum) ==
    [i \in DOMAIN spectrum |->
        IF i \in InBandBins(spectrum) THEN spectrum[i] ELSE 0]

\* C12: for the spectrum of a window that passed the noise gate, the
\* frequency reported is that of a bin of the band holding the largest
\* magnitude of the band when that magnitude exceeds the magnitude
\* threshold, and no pitch (0) otherwise; silencing the bins outside the
\* band leaves the result as it is; and the result is 0 or a frequency of
\* [MIN_FREQUENCY, MAX_FREQUENCY].
C12_PeakOfTheBand ==
    (WindowInProgress /\ passesNoiseGate(audioWindow)) =>
        /\ IF LargestInBand(fftData) > SPECTRAL_MAGNITUDE_THRESHOLD
           THEN \E i \in InBandBins(fftData) :
                    /\ fftData[i] = LargestInBand(fftData)
                    /\ fundamentalFrequency = (i * SAMPLE_RATE) \div TransformSize
           ELSE fundamentalFrequency = 0
        /\ detectFundamentalFrequency(audioWindow, BandOnly(fftData))
             = fundamentalFrequency
        /\ \/ fundamentalFrequency = 0
           \/ /\ fundamentalFrequency >= MIN_FREQUENCY
              /\ fundamentalFrequency <= MAX_FREQUENCY

\* No sample of the window is above the amplitude threshold in absolute
\* value.
AtOrBelowGate(window) ==
    \A i \in 1..Len(window) :
        window[i] <= NOISE_GATE_THRESHOLD /\ -window[i] <= NOISE_GATE_THRESHOLD

\* C13: for a window with no sample above the amplitude threshold the
\* detector reports no pitch (frequency 0, note 0) and the transform is not
\* run on it (no spectrum exists for the window), and the window is counted
\* as a silent one: consecutiveSilences is one more than before it,
\* consecutiveDetections is 0, no NoteOn is emitted, and an active note is
\* turned off by it once consecutiveSilences has reached silencesRequired.
C13_GateIsAbsolute ==
    (WindowInProgress /\ AtOrBelowGate(audioWindow)) =>
        /\ fundamentalFrequency = 0 /\ newMidiNote = 0
        /\ fftData = NoSpectrum
        /\ consecutiveSilences = win0.sils + 1
        /\ consecutiveDetections = 0
        /\ Len(recordedDetections) = win0.log
        /\ WindowDone =>
              /\ Emitted =
                    (IF win0.last > 0 /\ consecutiveSilences >= silencesRequired
                     THEN << Pm_Message(144, win0.last, 0) >>
                     ELSE << >>)
              /\ (win0.last > 0 /\ consecutiveSilences >= silencesRequired)
                    => lastMidiNote = 0

C13_Witness ==
    /\ WindowDone /\ AtOrBelowGate(audioWindow)
    /\ \E i \in 1..Len(audioWindow) : audioWindow[i] = NOISE_GATE_THRESHOLD
    /\ win0.last > 0
    /\ Emitted = << Pm_Message(144, win0.last, 0) >>
    /\ nWindows >= 2

(***************************************************************************)
(* Further claims about the note state machine, under SpecSM.              *)
(***************************************************************************)
\* The window in progress carries a note above the confidence threshold.
AboveConfidence == newMidiNote > 0 /\ fundamentalFrequency > ConfidenceHz

\* C14: consecutiveDetections and consecutiveSilences are never both
\* greater than 0; a window with a valid candidate leaves consecutiveSilences
\* at 0 (and consecutiveDetections above 0), a silent window leaves
\* consecutiveDetections at 0 (and consecutiveSilences above 0).
C14_CountersExclusive ==
    /\ ~(consecutiveDetections > 0 /\ consecutiveSilences > 0)
    /\ WindowInProgress =>
          IF AboveConfidence
          THEN consecutiveSilences = 0 /\ consecutiveDetections > 0
          ELSE consecutiveDetections = 0 /\ consecutiveSilences > 0

C14_Witness ==
    /\ WindowInProgress /\ AboveConfidence
    /\ win0.sils >= 2 /\ consecutiveSilences = 0
    /\ consecutiveDetections = 1
    /\ Len(midiOut) >= 2

C17_BelowConfidenceIsSilence ==
    WindowInProgress =>
        /\ (consecutiveDetections > 0 \/ Len(recordedDetections) > win0.log)
              => AboveConfidence
        /\ ~AboveConfidence =>
              /\ consecutiveSilences = win0.sils + 1
              /\ consecutiveDetections = 0
              /\ WindowDone =>
                    IF win0.last > 0 /\ consecutiveSilences >= silencesRequired
                    THEN /\ Emitted = << Pm_Message(144, win0.last, 0) >>
                         /\ lastMidiNote = 0
                    ELSE /\ Emitted = << >>
                         /\ lastMidiNote = win0.last

C17_Witness ==
    /\ WindowDone
    /\ newMidiNote > 0
    /\ fundamentalFrequency >= MIN_FREQUENCY
    /\ fundamentalFrequency <= ConfidenceHz
    /\ win0.last > 0
    /\ silencesRequired = 2 /\ consecutiveSilences = 2
    /\ Emitted = << Pm_Message(144, win0.last, 0) >>

(***************************************************************************)
(* Claims about the display loop and termination, under Spec.              *)
(***************************************************************************)
\* C16: every "Detected Frequency" line on the console shows the frequency
\* and the name of the note of one NoteOn the callback produced (a pair
\* recorded and published together, with a note above 0), and every
\* "Note Off" line names a note for which a Note-Off was written.
C16_StatusLinesAreEvents ==
    \A i \in 1..Len(console) :
        /\ console[i].kind = "Detected Frequency" =>
              \E e \in 1..Len(recordedDetections) :
                  /\ recordedDetections[e].midiNote > 0
                  /\ console[i].name
                       = getNoteName(recordedDetections[e].midiNote)
                  /\ console[i].frequency = recordedDetections[e].frequencyHz
        /\ console[i].kind = "Note Off" =>
              \E m \in 1..Len(midiOut) :
                  /\ IsNoteOff(midiOut[m])
                  /\ midiOut[m].note > 0
                  /\ console[i].name = getNoteName(midiOut[m].note)

\* Main is past its loop.
LoopExited ==
    mpc \in {"join", "final_test", "final_write", "stop", "close", "pm_close",
             "terminate", "save"}

\* The program has gone through teardown and returned 0.
Terminated ==
    /\ ExitedNormally
    /\ ipc = "joined"
    /\ Position("save") = Len(teardown)
    /\ Released

\* C18: with the threads scheduled fairly, once shouldStop is set the
\* program reaches the state where main has left its loop, joined the input
\* thread, completed teardown and returned 0 - provided every callback
\* returns, which it does unless the transform's buffers were never
\* allocated (fft then never returns); and main leaves its loop, or returns
\* 0, only with shouldStop set.
C18_StopTerminates ==
    /\ shouldStop ~> (Terminated \/ fftw = "null")
    /\ []((LoopExited \/ ExitedNormally) => shouldStop)
    /\ [][(mpc = "while" /\ mpc' = "join") => shouldStop]_vars

C18_Witness ==
    /\ Terminated
    /\ shouldStop
    /\ nWindows >= 2
    /\ Len(console) >= 1

\* C19: recordedDetections changes only in a step of the callback, by one
\* entry appended, while the stream is running and before main has started
\* to write the log; main writes the log (its only reading of the list)
\* after Pa_StopStream and Pa_CloseStream, with the stream closed and no
\* callback in progress; and nothing is appended from then on, so the file
\* written holds the whole list.
C19_LogNotShared ==
    /\ [][recordedDetections' # recordedDetections =>
             /\ cpc = "loop" /\ cpc' = "on_off"
             /\ Len(recordedDetections') = Len(recordedDetections) + 1
             /\ paStream = "running"
             /\ mpc' = mpc /\ mpc \notin {"save", "exited"}
             /\ Position("save") = 0]_vars
    /\ [][(mpc = "save" /\ mpc' # "save") =>
             /\ cpc = "idle" /\ paStream = "closed"
             /\ Position("Pa_StopStream") > 0
             /\ Position("Pa_CloseStream") > Position("Pa_StopStream")
             /\ UNCHANGED recordedDetections]_vars
    /\ []((mpc = "save" \/ Position("save") > 0) =>
             cpc = "idle" /\ paStream = "closed")
    /\ [](logFile.written =>
             Len(logFile.lines) = Len(recordedDetections))

C19_Witness ==
    /\ ExitedNormally /\ logFile.written
    /\ Len(logFile.lines) >= 2
    /\ errlog = << "PortAudio error" >>
    /\ Position("Pm_WriteShort") = 0

(***************************************************************************)
(* A further claim about the overlap buffer, under SpecBuf.                *)
(***************************************************************************)
\* C20: whenever the callback has returned, overlapBuffer holds fewer than
\* FFT_SIZE samples and, once a window has been processed, at least
\* FFT_SIZE - HOP_SIZE; at every moment it holds exactly the samples
\* delivered and not yet hopped over, for every split of the stream into
\* chunks.
C20_BacklogBounded ==
    /\ cpc = "idle" =>
          /\ Len(overlapBuffer) < FFT_SIZE
          /\ nWindows >= 1 => Len(overlapBuffer) >= FFT_SIZE - HOP_SIZE
    /\ cpc # "crashed" =>
          /\ framesProcessed <= Len(delivered)
          /\ overlapBuffer
               = SubSeq(delivered, framesProcessed + 1, Len(delivered))

C20_Witness ==
    /\ cpc = "idle"
    /\ callbackCount = 2
    /\ nWindows = 3
    /\ Len(overlapBuffer) = FFT_SIZE - 1

============================================================================
